---- MODULE Spec2Model ----
(***************************************************************************)
(* Model of app/api.py: the FastAPI facade that loads a run's artifacts at  *)
(* startup and serves them through five endpoints wrapped by               *)
(* construct_response.                                                     *)
(*                                                                         *)
(* Python strings that the code takes apart (the run id file, the filter,  *)
(* a param name, dict keys) are sequences of one-character strings.        *)
(* A JSON-like Python value (a scalar, or a dict nested to any depth) is a *)
(* function from the key paths that exist in it to a node; the empty path  *)
(* is the value itself.  {"a": {"b": 1}} is                                *)
(*   <<>> -> dict, <<"a">> -> dict, <<"a","b">> -> num 1.                  *)
(* An unbound Python name, None, and an absent result are the empty        *)
(* sequence; a bound one is a sequence of one element.                     *)
(***************************************************************************)
EXTENDS Integers, Sequences, FiniteSets, TLC

VARIABLES
    source,        \* content of MODEL_DIR/run_id.txt: <<>> unreadable, <<s>> readable
    phase,         \* "created" | "serving" | "aborted"
    artifacts,     \* the module global: <<>> unbound, <<bundle>> bound
    run_id_arg,    \* run_id handed to main.load_artifacts: <<>> not called, <<s>>
    loads,         \* number of times the startup hook has run
    now,           \* the clock datetime.now() reads
    call,          \* the last handler invocation and what it saw
    outcome        \* what that invocation ended in

vars == <<source, phase, artifacts, run_id_arg, loads, now, call, outcome>>

----------------------------------------------------------------------------
(* Bounds of the model *)

MaxSegs == 3       \* segments in a filter
MaxSrcLen == 2     \* characters in run_id.txt
MaxTexts == 1      \* texts in a predict payload
MaxClock == 1      \* clock readings

----------------------------------------------------------------------------
(* Python values *)

Node(kind, v) == [kind |-> kind, v |-> v]

Num(v) == (<<>> :> Node("num", v))
Str(v) == (<<>> :> Node("str", v))
EmptyDict == (<<>> :> Node("dict", ""))

IsDict(x) == x[<<>>].kind = "dict"

\* the keys of a dict
Keys(x) == {p[1] : p \in {q \in DOMAIN x : Len(q) = 1}}

\* x[k] for a key k of dict x
Item(x, k) ==
    LET under == {q \in DOMAIN x : Len(q) >= 1 /\ q[1] = k}
    IN  [p \in {Tail(q) : q \in under} |-> x[<<k>> \o p]]

\* the dict literal {k: f[k] for k in DOMAIN f}
Dict(f) ==
    LET dom == {<<>>} \cup UNION {{<<k>> \o q : q \in DOMAIN f[k]} : k \in DOMAIN f}
    IN  [p \in dom |-> IF p = <<>> THEN Node("dict", "") ELSE f[Head(p)][Tail(p)]]

\* dict.get(k, default)
get(x, k, default) == IF k \in Keys(x) THEN Item(x, k) ELSE default

\* str.split(sep) for a one-character separator
RECURSIVE split(_, _)
split(s, sep) ==
    IF \A i \in 1..Len(s) : s[i] # sep
    THEN <<s>>
    ELSE LET i == CHOOSE i \in 1..Len(s) :
                      s[i] = sep /\ \A j \in 1..(i - 1) : s[j] # sep
         IN  <<SubSeq(s, 1, i - 1)>> \o split(SubSeq(s, i + 1, Len(s)), sep)

\* literal keys
K_params == <<"p", "a", "r", "a", "m", "s">>
K_performance == <<"p", "e", "r", "f", "o", "r", "m", "a", "n", "c", "e">>
K_predictions == <<"p", "r", "e", "d", "i", "c", "t", "i", "o", "n", "s">>

HTTPStatus_OK == 200
HTTPStatus_OK_phrase == "OK"

----------------------------------------------------------------------------
(* The collaborators: tagifai.main.load_artifacts and tagifai.predict      *)

K_a == <<"a">>
K_b == <<"b">>
K_lr == <<"l", "r">>
K_empty == <<>>

\* the runs the loading service knows, by run id
Run_r == <<"r">>
Run_rr == <<"r", "r">>

Bundle_r ==
    [params |-> Dict(K_lr :> Num("0.1")),
     performance |-> Dict(K_a :> Dict(K_b :> Num("1")))]

Bundle_rr ==
    [params |-> Dict((K_lr :> Num("0.2")) @@ (K_a :> Str(""))),
     performance |-> Dict((K_a :> Dict((K_a :> Dict(K_b :> Num("3")))
                                       @@ (K_empty :> Num("4"))))
                          @@ (K_b :> Num("2")))]

RunIds == {Run_r, Run_rr}

Registry(run_id) == IF run_id = Run_r THEN Bundle_r ELSE Bundle_rr

\* main.load_artifacts(run_id): raises for a run it does not know
main_load_artifacts(run_id) ==
    IF run_id \in RunIds
    THEN [raised |-> "", value |-> <<Registry(run_id)>>]
    ELSE [raised |-> "LoadError", value |-> <<>>]

\* a Python list of values, keyed by position
Position == <<"0", "1", "2", "3">>

List(xs) ==
    LET dom == {<<>>} \cup UNION {{<<(<<Position[i]>>)>> \o q : q \in DOMAIN xs[i]} : i \in 1..Len(xs)}
        pos(k) == CHOOSE i \in 1..Len(xs) : <<Position[i]>> = k
    IN  [p \in dom |-> IF p = <<>> THEN Node("list", "") ELSE xs[pos(Head(p))][Tail(p)]]

\* predict.predict(texts, artifacts): one prediction per text, in order;
\* a fault of the service propagates
predict_predict(texts, bundle, fails) ==
    IF fails
    THEN [raised |-> "PredictError", value |-> <<>>]
    ELSE [raised |-> "",
          value |-> <<List([i \in 1..Len(texts) |-> (<<>> :> Node("prediction", texts[i]))])>>]

----------------------------------------------------------------------------
(* Inputs *)

Requests ==
    {[method |-> "GET", url |-> "http://testserver/"],
     [method |-> "POST", url |-> "http://testserver/predict"]}

Texts == {"t1", "t2"}

RECURSIVE SeqsUpTo(_, _)
SeqsUpTo(S, n) ==
    IF n = 0 THEN {<<>>}
    ELSE LET shorter == SeqsUpTo(S, n - 1)
         IN  shorter \cup {Append(s, x) : s \in shorter, x \in S}

Payloads == SeqsUpTo({[text |-> t] : t \in Texts}, MaxTexts)

ParamNames == {<<>>, K_lr, K_a, K_b}

\* filters: up to MaxSegs segments joined by dots
Segments == {<<>>, K_a, K_b}

RECURSIVE Joined(_)
Joined(n) ==
    IF n = 1 THEN Segments
    ELSE LET shorter == Joined(n - 1)
         IN  shorter \cup {s \o <<".">> \o g : s \in shorter, g \in Segments}

\* <<>> is None, <<s>> the query parameter s
Filters == {<<>>} \cup {<<s>> : s \in Joined(MaxSegs)}

SrcChars == {"r", "\n"}

Sources == {<<>>} \cup {<<s>> : s \in SeqsUpTo(SrcChars, MaxSrcLen)}

----------------------------------------------------------------------------
(* app/api.py *)

\* what a function leaves behind: the module globals, and either a fault
\* or its return value
Raise(art, fault) == [globals |-> art, raised |-> fault, results |-> <<>>]
Return(art, results) == [globals |-> art, raised |-> "", results |-> <<results>>]

Results(data) ==
    ("message" :> HTTPStatus_OK_phrase) @@ ("status-code" :> HTTPStatus_OK) @@ ("data" :> data)

\* load_artifacts with the failure caught and logged instead of raised
load_artifacts_swallow(art, src) ==
    IF src = <<>>
    THEN [globals |-> art, raised |-> "", run_id |-> <<>>]
    ELSE LET run_id == src[1]
             loaded == main_load_artifacts(run_id)
         IN  [globals |-> loaded.value, raised |-> "", run_id |-> <<run_id>>]

\* load_artifacts(): the startup hook
load_artifacts(art, src) ==
    IF src = <<>>
    THEN [globals |-> art, raised |-> "OSError", run_id |-> <<>>]
    ELSE LET run_id == src[1]
             loaded == main_load_artifacts(run_id)
         IN  IF loaded.raised # ""
             THEN [globals |-> art, raised |-> loaded.raised, run_id |-> <<run_id>>]
             ELSE [globals |-> loaded.value, raised |-> "", run_id |-> <<run_id>>]

isoformat(t) == [format |-> "iso8601", instant |-> t]

\* construct_response with response["data"] = results.get("data", {})
construct_response_always_data(results, request, clock) ==
    ("message" :> results["message"])
    @@ ("method" :> request.method)
    @@ ("status-code" :> results["status-code"])
    @@ ("timestamp" :> isoformat(clock))
    @@ ("url" :> request.url)
    @@ ("data" :> IF "data" \in DOMAIN results THEN results["data"] ELSE EmptyDict)

\* the body of wrap after the endpoint returned
construct_response(results, request, clock) ==
    LET response ==
            ("message" :> results["message"])
            @@ ("method" :> request.method)
            @@ ("status-code" :> results["status-code"])
            @@ ("timestamp" :> isoformat(clock))
            @@ ("url" :> request.url)
    IN  IF "data" \in DOMAIN results
        THEN response @@ ("data" :> results["data"])
        ELSE response

\* wrap(request, ...): a fault of the endpoint propagates
wrap(r, request, clock) ==
    IF r.raised # ""
    THEN [raised |-> r.raised, results |-> <<>>, response |-> <<>>]
    ELSE [raised |-> "", results |-> r.results,
          response |-> <<construct_response(r.results[1], request, clock)>>]

_index(art, request) == Return(art, Results(EmptyDict))

_predict(art, request, payload, fails) ==
    LET texts == [i \in 1..Len(payload) |-> payload[i].text]
    IN  IF art = <<>> THEN Raise(art, "NameError")
        ELSE LET predictions == predict_predict(texts, art[1], fails)
             IN  IF predictions.raised # ""
                 THEN Raise(art, predictions.raised)
                 ELSE Return(art, Results(Dict(K_predictions :> predictions.value[1])))

\* _params reading globals().get("artifacts") with an empty default
_params_default(art, request) ==
    IF art = <<>> THEN Return(art, Results(Dict(K_params :> EmptyDict)))
    ELSE Return(art, Results(Dict(K_params :> art[1].params)))

_params(art, request) ==
    IF art = <<>> THEN Raise(art, "NameError")
    ELSE Return(art, Results(Dict(K_params :> art[1].params)))

\* _param with vars(artifacts["params"])[param]
_param_subscript(art, request, param) ==
    IF art = <<>> THEN Raise(art, "NameError")
    ELSE IF param \notin Keys(art[1].params) THEN Raise(art, "KeyError")
    ELSE Return(art, Results(Dict(K_params :>
                Dict(param :> Item(art[1].params, param)))))

_param(art, request, param) ==
    IF art = <<>> THEN Raise(art, "NameError")
    ELSE Return(art, Results(Dict(K_params :>
                Dict(param :> get(art[1].params, param, Str(""))))))

\* the loop with performance.get(key, performance)
RECURSIVE Descend_keep(_, _)
Descend_keep(performance, keys) ==
    IF keys = <<>> THEN [raised |-> "", value |-> performance]
    ELSE IF ~IsDict(performance) THEN [raised |-> "AttributeError", value |-> performance]
    ELSE Descend_keep(get(performance, Head(keys), performance), Tail(keys))

\* for key in keys: performance = performance.get(key, {})
RECURSIVE Descend(_, _)
Descend(performance, keys) ==
    IF keys = <<>> THEN [raised |-> "", value |-> performance]
    ELSE IF ~IsDict(performance) THEN [raised |-> "AttributeError", value |-> performance]
    ELSE Descend(get(performance, Head(keys), EmptyDict), Tail(keys))

\* if filter is not None:
Truthy_notnone(filter) == filter # <<>>

\* if filter:
Truthy(filter) == filter # <<>> /\ filter[1] # <<>>

\* _performance folding into artifacts["performance"] instead of a local
_performance_inplace(art, request, filter) ==
    IF art = <<>> THEN Raise(art, "NameError")
    ELSE IF Truthy(filter)
         THEN LET performance == Descend(art[1].performance, split(filter[1], "."))
                  stored == <<[art[1] EXCEPT !.performance = performance.value]>>
              IN  IF performance.raised # ""
                  THEN Raise(stored, performance.raised)
                  ELSE Return(stored, Results(Dict(K_performance :>
                                Dict(filter[1] :> performance.value))))
         ELSE Return(art, Results(Dict(K_performance :> art[1].performance)))

_performance(art, request, filter) ==
    IF art = <<>> THEN Raise(art, "NameError")
    ELSE IF Truthy(filter)
         THEN LET performance == Descend(art[1].performance, split(filter[1], "."))
              IN  IF performance.raised # ""
                  THEN Raise(art, performance.raised)
                  ELSE Return(art, Results(Dict(K_performance :>
                                Dict(filter[1] :> performance.value))))
         ELSE Return(art, Results(Dict(K_performance :> art[1].performance)))

----------------------------------------------------------------------------
(* The process *)

NoCall ==
    [handler |-> "", request |-> [method |-> "", url |-> ""], filter |-> <<>>,
     param |-> <<>>, payload |-> <<>>, artifacts |-> <<>>, clock |-> 0]

NoOutcome == [raised |-> "", results |-> <<>>, response |-> <<>>]

Init ==
    /\ source \in Sources
    /\ phase = "created"
    /\ artifacts = <<>>
    /\ run_id_arg = <<>>
    /\ loads = 0
    /\ now = 0
    /\ call = NoCall
    /\ outcome = NoOutcome

\* @app.on_event("startup"): the server runs the hook once, before it
\* accepts connections; when the hook raises, startup has failed and the
\* process exits without serving
Startup ==
    /\ phase = "created"
    /\ LET r == load_artifacts(artifacts, source)
       IN  /\ artifacts' = r.globals
           /\ run_id_arg' = r.run_id
           /\ phase' = IF r.raised = "" THEN "serving" ELSE "aborted"
    /\ loads' = loads + 1
    /\ UNCHANGED <<source, now, call, outcome>>

\* a request routed to an endpoint; a client that does not run the
\* lifespan reaches the endpoints while the hook has not run
Invoke(handler, request, filter, param, payload, r) ==
    /\ phase \in {"created", "serving"}
    /\ call' = [handler |-> handler, request |-> request, filter |-> filter,
                param |-> param, payload |-> payload, artifacts |-> artifacts,
                clock |-> now]
    /\ artifacts' = r.globals
    /\ outcome' = wrap(r, request, now)
    /\ UNCHANGED <<source, phase, run_id_arg, loads, now>>

Health ==
    \E request \in Requests :
        Invoke("_index", request, <<>>, <<>>, <<>>, _index(artifacts, request))

Predict ==
    \E request \in Requests, payload \in Payloads, fails \in BOOLEAN :
        Invoke("_predict", request, <<>>, <<>>, payload,
               _predict(artifacts, request, payload, fails))

Params ==
    \E request \in Requests :
        Invoke("_params", request, <<>>, <<>>, <<>>, _params(artifacts, request))

Param ==
    \E request \in Requests, param \in ParamNames :
        Invoke("_param", request, <<>>, <<param>>, <<>>,
               _param(artifacts, request, param))

Performance ==
    \E request \in Requests, filter \in Filters :
        Invoke("_performance", request, filter, <<>>, <<>>,
               _performance(artifacts, request, filter))

Tick ==
    /\ now < MaxClock
    /\ now' = now + 1
    /\ UNCHANGED <<source, phase, artifacts, run_id_arg, loads, call, outcome>>

Next == Startup \/ Health \/ Predict \/ Params \/ Param \/ Performance \/ Tick

Spec == Init /\ [][Next]_vars

\* construct_response applied to any endpoint f: what f returns is any
\* result with a message and a status code, with or without data
RawResults ==
    LET base == {("message" :> m) @@ ("status-code" :> c) :
                    m \in {"OK", "Created"}, c \in {HTTPStatus_OK, 201}}
    IN  base \cup {b @@ ("data" :> d) : b \in base, d \in {EmptyDict, Dict(K_params :> EmptyDict)}}

Decorated ==
    \E request \in Requests, results \in RawResults, fault \in {"", "ValueError"} :
        Invoke("f", request, <<>>, <<>>, <<>>,
               IF fault = "" THEN Return(artifacts, results) ELSE Raise(artifacts, fault))

NextWrap == Next \/ Decorated

SpecWrap == Init /\ [][NextWrap]_vars

----------------------------------------------------------------------------
(* What the properties speak of *)

\* the handlers that read the global
StoreReaders == {"_predict", "_params", "_param", "_performance"}

Returned == outcome.raised = "" /\ outcome.response # <<>>
Data == outcome.response[1]["data"]

\* str.strip(): surrounding whitespace removed
Whitespace == {" ", "\t", "\n", "\r", "\f"}

RECURSIVE lstrip(_)
lstrip(s) == IF s # <<>> /\ Head(s) \in Whitespace THEN lstrip(Tail(s)) ELSE s

RECURSIVE rstrip(_)
rstrip(s) ==
    IF s # <<>> /\ s[Len(s)] \in Whitespace THEN rstrip(SubSeq(s, 1, Len(s) - 1)) ELSE s

strip(s) == rstrip(lstrip(s))

\* the segments of a dot-path: the dot-free pieces that, joined by dots,
\* give the path back
RECURSIVE Join(_)
Join(segs) ==
    IF Len(segs) = 1 THEN segs[1] ELSE segs[1] \o <<".">> \o Join(Tail(segs))

SegmentsOf(path) ==
    CHOOSE segs \in SeqsUpTo(Segments, MaxSegs) : Len(segs) >= 1 /\ Join(segs) = path

\* the value at a key path that exists in a nested mapping
ValueAt(mapping, keys) ==
    [p \in {SubSeq(q, Len(keys) + 1, Len(q)) :
                q \in {r \in DOMAIN mapping :
                          Len(r) >= Len(keys) /\ SubSeq(r, 1, Len(keys)) = keys}}
        |-> mapping[keys \o p]]

\* the value a dot-path resolves to: the value at the path when every
\* segment is present, {} otherwise
Resolved(mapping, keys) ==
    IF keys \in DOMAIN mapping THEN ValueAt(mapping, keys) ELSE EmptyDict

\* the path runs into a scalar and has segments left
HitsScalar(mapping, keys) ==
    \E n \in 0..(Len(keys) - 1) :
        /\ SubSeq(keys, 1, n) \in DOMAIN mapping
        /\ mapping[SubSeq(keys, 1, n)].kind # "dict"

PerformanceCall ==
    /\ call.handler = "_performance"
    /\ call.artifacts # <<>>

Filtered == call.filter # <<>> /\ call.filter[1] # <<>>

StoredPerformance == call.artifacts[1].performance
StoredParams == call.artifacts[1].params

\* the startup load failed: the file could not be read, or the service raised
LoadFailed ==
    /\ loads > 0
    /\ \/ source = <<>>
       \/ run_id_arg # <<>> /\ main_load_artifacts(run_id_arg[1]).raised # ""

----------------------------------------------------------------------------
(* Properties *)

\* C1: a handler that reads the artifacts and is invoked while the global
\* is still unbound ends in the unbound-name fault: it returns no envelope,
\* and so no empty or placeholder data.
C1_UninitializedFault ==
    (call.handler \in StoreReaders /\ call.artifacts = <<>>)
        => /\ outcome.raised = "NameError"
           /\ outcome.results = <<>>
           /\ outcome.response = <<>>

C1_Witness ==
    /\ call.handler = "_predict"
    /\ call.artifacts = <<>>
    /\ outcome.raised = "NameError"

\* C2: the global is bound once, by the startup hook, to the bundle the
\* loading service returned for the run id it was given, and no handler
\* invocation changes it afterwards.
C2_WrittenOnce ==
    /\ [](artifacts # <<>> =>
            /\ loads = 1
            /\ run_id_arg # <<>>
            /\ main_load_artifacts(run_id_arg[1]).raised = ""
            /\ artifacts = main_load_artifacts(run_id_arg[1]).value)
    /\ [][artifacts # <<>> => artifacts' = artifacts]_vars
    /\ [][artifacts' # artifacts => (loads' = loads + 1 /\ call' = call)]_vars

C2_Witness ==
    /\ artifacts # <<>>
    /\ PerformanceCall
    /\ Filtered
    /\ Returned

\* C3: once the startup load has failed the process is not serving and
\* stays so: nothing is bound, the hook has run once and does not run
\* again, and no handler invocation completes from then on.
C3_FailedStartupAborts ==
    /\ [](LoadFailed => (phase # "serving" /\ artifacts = <<>> /\ loads = 1))
    /\ [][LoadFailed => (LoadFailed' /\ loads' = loads /\ artifacts' = artifacts
                         /\ call' = call /\ outcome' = outcome)]_vars

C3_Witness ==
    /\ LoadFailed
    /\ run_id_arg # <<>>
    /\ phase = "aborted"

\* C4: the run id given to the loading service is the content of the
\* identifier source with surrounding whitespace trimmed.
C4_RunIdTrimmed ==
    run_id_arg # <<>> => run_id_arg[1] = strip(source[1])

\* C5: a filter whose path runs into a scalar with segments left resolves
\* to {} without raising: the handler returns 200 and
\* {"performance": {filter: {}}}.
C5_OverDescentYieldsEmpty ==
    (PerformanceCall /\ Filtered
        /\ HitsScalar(StoredPerformance, SegmentsOf(call.filter[1])))
        => /\ Returned
           /\ outcome.response[1]["status-code"] = 200
           /\ Data = Dict(K_performance :> Dict(call.filter[1] :> EmptyDict))

\* C6: when the path never runs into a scalar with segments left, the
\* filter resolves without raising: to the value at the path, unwrapped,
\* when every segment is present, and to {} when some segment is absent.
C6_ResolveIsFold ==
    (PerformanceCall /\ Filtered
        /\ ~HitsScalar(StoredPerformance, SegmentsOf(call.filter[1])))
        => /\ Returned
           /\ LET keys == SegmentsOf(call.filter[1])
                  resolved == Item(Item(Data, K_performance), call.filter[1])
              IN  resolved = Resolved(StoredPerformance, keys)

C6_Witness ==
    /\ PerformanceCall
    /\ Filtered
    /\ Returned
    /\ Len(SegmentsOf(call.filter[1])) >= 2
    /\ SegmentsOf(call.filter[1]) \in DOMAIN StoredPerformance
    /\ ~IsDict(Item(Item(Data, K_performance), call.filter[1]))

\* C7: a call with a non-empty filter returns data with the one key
\* "performance", under it the one key that is the filter string as given,
\* dots included, and under that the value the filter resolves to.
C7_KeyedByFilterString ==
    (PerformanceCall /\ Filtered)
        => /\ Returned
           /\ IsDict(Data)
           /\ Keys(Data) = {K_performance}
           /\ IsDict(Item(Data, K_performance))
           /\ Keys(Item(Data, K_performance)) = {call.filter[1]}
           /\ ValueAt(Data, <<K_performance, call.filter[1]>>)
                = Resolved(StoredPerformance, SegmentsOf(call.filter[1]))

\* C8: with no filter, or the empty string as filter, the data returned is
\* {"performance": P}, P the whole stored performance mapping.
C8_UnfilteredIsWhole ==
    (PerformanceCall /\ (call.filter = <<>> \/ call.filter = << <<>> >>))
        => /\ Returned
           /\ Keys(Data) = {K_performance}
           /\ Item(Data, K_performance) = StoredPerformance
           /\ Data = Dict(K_performance :> StoredPerformance)

C8_Witness ==
    /\ PerformanceCall
    /\ call.filter = << <<>> >>
    /\ Returned
    /\ Item(Data, K_performance) = Bundle_rr.performance

\* C9: with the global bound, the single-param handler returns for every
\* name: status 200 and {"params": {name: v}}, v the stored value when
\* the name is a param and "" when it is not (the empty name included).
C9_ParamNeverRaises ==
    (call.handler = "_param" /\ call.artifacts # <<>>)
        => /\ Returned
           /\ outcome.response[1]["status-code"] = 200
           /\ Keys(Data) = {K_params}
           /\ Keys(Item(Data, K_params)) = {call.param[1]}
           /\ LET name == call.param[1]
                  v == ValueAt(Data, <<K_params, name>>)
              IN  IF <<name>> \in DOMAIN StoredParams
                  THEN v = ValueAt(StoredParams, <<name>>)
                  ELSE v = Str("")

C9_Witness ==
    /\ call.handler = "_param"
    /\ call.artifacts # <<>>
    /\ call.param = << <<>> >>
    /\ Returned
    /\ ValueAt(Data, <<K_params, <<>> >>) = Str("")

\* C10: the envelope has the keys message, method, status-code, timestamp
\* and url, and data exactly when the raw result has data; message,
\* status-code and data are the raw result's, method and url the request's.
C10_EnvelopeShape ==
    outcome.response # <<>>
        => LET response == outcome.response[1]
               results == outcome.results[1]
           IN  /\ DOMAIN response =
                    {"message", "method", "status-code", "timestamp", "url"}
                        \cup (IF "data" \in DOMAIN results THEN {"data"} ELSE {})
               /\ response["message"] = results["message"]
               /\ response["status-code"] = results["status-code"]
               /\ "data" \in DOMAIN results => response["data"] = results["data"]
               /\ response["method"] = call.request.method
               /\ response["url"] = call.request.url

C10_Witness ==
    /\ call.handler = "f"
    /\ outcome.response # <<>>
    /\ "data" \notin DOMAIN outcome.results[1]
    /\ outcome.response[1]["status-code"] = 201

====
